---- MODULE Spec2Model ----
(***************************************************************************)
(* A model of libcala/camera's Linux backend (src/src/lib.rs):             *)
(*   - the ioctl request-code composition (iow_v, ior_v, iowr_v),          *)
(*   - Rig, the hotplug monitor: an inotify watch on /dev/ and the set of  *)
(*     connected node names,                                               *)
(*   - Camera: initialization, the dequeue/enqueue poll, and Drop.         *)
(* The kernel side (the /dev/ directory, the inotify event queue, the      *)
(* file-descriptor table and the result of every system call) is the       *)
(* environment: its choices are nondeterministic.                          *)
(***************************************************************************)
EXTENDS Integers, Sequences, FiniteSets, TLC

VARIABLES
    dev,        \* names of the entries of /dev/
    inotify,    \* the inotify event queue of the Rig's watch (records not yet read)
    connected,  \* Rig.connected
    rigPc,      \* position of Rig::poll: "idle", "read", "scan" or "dead" (panicked)
    scanLeft,   \* entries of the running read_dir iteration not yet visited
    fds,        \* the device-node file descriptors opened so far, by descriptor
    cams,       \* every Camera constructed so far
    last,       \* what the last step did: operation, system calls issued, result
    hist,       \* bookkeeping of the Rig's directory scans (previous and running)
    ctl         \* the last ioctl request code composed (codec specification)

vars == <<dev, inotify, connected, rigPc, scanLeft, fds, cams, last, hist, ctl>>

(***************************************************************************)
(* Bounds of the model.                                                    *)
(***************************************************************************)
\* length of the inotify queue the environment fills before the Rig reads
MaxEvents == 2
\* number of device-node descriptors the process may open (its fd limit)
MaxFds == 4

(***************************************************************************)
(* 32-bit words, as the code's shifts and ors compute them.  A word is a   *)
(* function from bit position 0..31 to 0 or 1.                             *)
(***************************************************************************)
WordBits == 0..31

RECURSIVE Pow2(_)
Pow2(n) == IF n = 0 THEN 1 ELSE 2 * Pow2(n - 1)

\* the word of a natural number below 2^31
Word(n) == [i \in WordBits |-> IF i < 31 THEN (n \div Pow2(i)) % 2 ELSE 0]

\* w << k, bits shifted past bit 31 of the 32-bit code are not part of it
Shl(w, k) == [i \in WordBits |-> IF i >= k THEN w[i - k] ELSE 0]

BitOr(a, b) == [i \in WordBits |-> IF a[i] = 1 \/ b[i] = 1 THEN 1 ELSE 0]

BitAnd(a, b) == [i \in WordBits |-> IF a[i] = 1 /\ b[i] = 1 THEN 1 ELSE 0]

RECURSIVE BitsValue(_, _, _)
\* the number held by bits lo..hi of word w
BitsValue(w, lo, hi) ==
    IF hi < lo THEN 0 ELSE w[lo] + 2 * BitsValue(w, lo + 1, hi)

\* b'V'
TagV == 86

\* the body shared by iow_v, ior_v and iowr_v:
\* (dir << 24) | ((size & 0x1fff) << 16) | (b'V' << 8) | num
ioc_v(dir, size, num) ==
    BitOr(BitOr(BitOr(Shl(Word(dir), 24),
                      Shl(BitAnd(Word(size), Word(8191)), 16)),
                Shl(Word(TagV), 8)),
          Word(num))

iow_v(size, num) == ioc_v(128, size, num)

\* as ior_v, with the direction byte of iow_v
ior_v_as_write(size, num) == ioc_v(128, size, num)

ior_v(size, num) == ioc_v(64, size, num)

iowr_v(size, num) == ioc_v(192, size, num)

\* the composer named by its direction byte
Compose(dir, size, num) ==
    CASE dir = 128 -> iow_v(size, num)
      [] dir = 64  -> ior_v(size, num)
      [] dir = 192 -> iowr_v(size, num)

(***************************************************************************)
(* Sizes of the ioctl payloads (size_of of the #[repr(C)] types on a       *)
(* 64-bit target) and the request codes built from them.                   *)
(***************************************************************************)
SizeOfCInt == 4
SizeOfV4l2Capability == 104
SizeOfV4l2Format == 208
SizeOfV4l2RequestBuffers == 20
SizeOfV4l2Buffer == 88

VIDIOC_STREAMON == iow_v(SizeOfCInt, 18)
VIDIOC_STREAMOFF == iow_v(SizeOfCInt, 19)
VIDIOC_QUERYCAP == ior_v(SizeOfV4l2Capability, 0)
VIDIOC_S_FMT == iowr_v(SizeOfV4l2Format, 5)
VIDIOC_REQBUFS == iowr_v(SizeOfV4l2RequestBuffers, 8)
VIDIOC_QUERYBUF == iowr_v(SizeOfV4l2Buffer, 9)
VIDIOC_QBUF == iowr_v(SizeOfV4l2Buffer, 15)
VIDIOC_DQBUF == iowr_v(SizeOfV4l2Buffer, 17)

\* the (direction, size, number) triples of the eight requests the code uses
UsedRequests ==
    { <<128, SizeOfCInt, 18>>, <<128, SizeOfCInt, 19>>,
      <<64, SizeOfV4l2Capability, 0>>, <<192, SizeOfV4l2Format, 5>>,
      <<192, SizeOfV4l2RequestBuffers, 8>>, <<192, SizeOfV4l2Buffer, 9>>,
      <<192, SizeOfV4l2Buffer, 15>>, <<192, SizeOfV4l2Buffer, 17>> }

(***************************************************************************)
(* File names are sequences of characters, so that starts_with and         *)
(* ends_with are computed on the text.                                     *)
(***************************************************************************)
video0 == <<"v", "i", "d", "e", "o", "0">>
video1 == <<"v", "i", "d", "e", "o", "1">>
null == <<"n", "u", "l", "l">>
EventJoystick ==
    <<"-", "e", "v", "e", "n", "t", "-", "j", "o", "y", "s", "t", "i", "c", "k">>
video0_event_joystick == video0 \o EventJoystick

\* A name on disk is a sequence of bytes; "0xFF" stands for a byte that is no
\* valid UTF-8, and "U+FFFD" for the replacement character (itself valid
\* UTF-8) that a lossy conversion puts in its place.
video_xff_event_joystick == <<"v", "i", "d", "e", "o", "0xFF">> \o EventJoystick
video_fffd_event_joystick == <<"v", "i", "d", "e", "o", "U+FFFD">> \o EventJoystick

\* CStr::to_string_lossy
to_string_lossy(name) ==
    [k \in 1..Len(name) |-> IF name[k] = "0xFF" THEN "U+FFFD" ELSE name[k]]

\* the entries /dev/ may hold; /dev/null is always there, the others come and go
DevNames == {video0, video1, video0_event_joystick, null}
HotplugNames == DevNames \ {null}

\* str::starts_with
starts_with(s, pat) ==
    Len(pat) <= Len(s) /\ SubSeq(s, 1, Len(pat)) = pat

\* str::ends_with
ends_with(s, pat) ==
    Len(pat) <= Len(s) /\ SubSeq(s, Len(s) - Len(pat) + 1, Len(s)) = pat

\* the "video" prefix of the directory scan
VideoPrefix == <<"v", "i", "d", "e", "o">>

\* the node Camera::new opens, whatever descriptor it was given
HardcodedNode == video0

(***************************************************************************)
(* inotify.  The watch asks for IN_CREATE (0x100) and IN_DELETE (0x200).   *)
(* A record in the queue is [mask, name].  read(2) on an inotify           *)
(* descriptor returns as many whole records as fit in the caller's buffer: *)
(* a record takes a 16-byte header and the name, NUL-terminated and padded *)
(* to a multiple of 16 bytes.                                              *)
(***************************************************************************)
IN_CREATE == 256
IN_DELETE == 512
SizeOfInotifyEv == 272
InotifyHeader == 16

RecordBytes(r) == InotifyHeader + 16 * ((Len(r.name) + 1 + 15) \div 16)

RECURSIVE FitCount(_, _)
\* how many records from the head of queue q fit in `room` bytes
FitCount(q, room) ==
    IF q = <<>> \/ RecordBytes(Head(q)) > room THEN 0
    ELSE 1 + FitCount(Tail(q), room - RecordBytes(Head(q)))

\* ev.mask & 0x0000_0200 != 0
RemoveFlagSet(mask) == BitAnd(Word(mask), Word(IN_DELETE)) # Word(0)

(***************************************************************************)
(* System calls are recorded as [fd, req, ok].  The Rig's inotify          *)
(* descriptor is RigFd; device nodes get the descriptors 1, 2, ... in the  *)
(* order they are opened (a descriptor number is not reused).              *)
(***************************************************************************)
RigFd == 0
\* munmap takes an address, not a descriptor
NoFd == -1

Call(fd, req, ok) == [fd |-> fd, req |-> req, ok |-> ok]

\* the lengths a driver may report for the buffer in VIDIOC_QUERYBUF
BufLengths == {4096}

\* the ioctls of Camera::new, in the order the code issues them
InitOrder ==
    << "VIDIOC_QUERYCAP", "VIDIOC_S_FMT", "VIDIOC_REQBUFS",
       "VIDIOC_QUERYBUF", "VIDIOC_QBUF", "VIDIOC_STREAMON" >>

\* the panic message of each failing ioctl of Camera::new
InitPanic ==
    << "Failed Querying Capabilites", "Error setting Pixel Format",
       "Error Requesting Buffer", "Error Querying Buffer",
       "Error: VIDIOC_QBUF", "Error: VIDIOC_STREAMON" >>

\* the descriptor Camera::new works on: the one it opens itself
DeviceFd(argFd, ownFd) == ownFd

\* as Camera_new, returning None when a control call fails
Camera_new_none_on_failure(argFd, node, ownFd, openOk, failAt, length) ==
    IF ~openOk
    THEN [result |-> "None", msg |-> "", calls |-> <<>>, cam |-> <<>>]
    ELSE LET fd == DeviceFd(argFd, ownFd)
             n == IF failAt = 0 THEN Len(InitOrder) ELSE failAt
             calls == [k \in 1..n |-> Call(fd, InitOrder[k], k # failAt)]
         IN  IF failAt # 0
             THEN [result |-> "None", msg |-> "", calls |-> calls, cam |-> <<>>]
             ELSE [result |-> "Some", msg |-> "", calls |-> calls,
                   cam |-> << [fd |-> fd, arg |-> argFd, node |-> node,
                               size |-> length, buffer |-> "null",
                               queued |-> TRUE, st |-> "streaming",
                               res |-> "none", readys |-> 0, qsince |-> 1,
                               gap |-> 0, dblq |-> FALSE] >>]

(***************************************************************************)
(* Camera::new(fd, raster).  argFd is the descriptor passed in, node the   *)
(* name the caller opened it for, ownFd the descriptor the function's own  *)
(* open of /dev/video0 returns when openOk, failAt the position (1..6) of  *)
(* the ioctl that fails, 0 when none does, and length the buffer length    *)
(* VIDIOC_QUERYBUF reports.  Besides the fields of the struct, a camera     *)
(* record keeps whether the driver holds the buffer (queued), the result   *)
(* of its last poll (res), and counts for the enqueue/dequeue cycle: the   *)
(* Ready results so far (readys, up to 2), the VIDIOC_QBUF calls since the *)
(* last Ready (qsince), that count at the last Ready (gap), and whether a  *)
(* VIDIOC_QBUF was ever issued on a buffer still enqueued (dblq).          *)
(***************************************************************************)
Camera_new(argFd, node, ownFd, openOk, failAt, length) ==
    IF ~openOk
    THEN [result |-> "None", msg |-> "", calls |-> <<>>, cam |-> <<>>]
    ELSE LET fd == DeviceFd(argFd, ownFd)
             n == IF failAt = 0 THEN Len(InitOrder) ELSE failAt
             calls == [k \in 1..n |-> Call(fd, InitOrder[k], k # failAt)]
         IN  IF failAt # 0
             THEN [result |-> "panic", msg |-> InitPanic[failAt],
                   calls |-> calls, cam |-> <<>>]
             ELSE [result |-> "Some", msg |-> "", calls |-> calls,
                   cam |-> << [fd |-> fd, arg |-> argFd, node |-> node,
                               size |-> length, buffer |-> "null",
                               queued |-> TRUE, st |-> "streaming",
                               res |-> "none", readys |-> 0, qsince |-> 1,
                               gap |-> 0, dblq |-> FALSE] >>]

(***************************************************************************)
(* <Camera as Future>::poll.  dq is the result of VIDIOC_DQBUF ("ok",      *)
(* "EAGAIN" or another error), qOk that of the VIDIOC_QBUF that follows a  *)
(* successful dequeue.                                                     *)
(***************************************************************************)
\* panic!("Error retrieving frame {}\n", errno) for the errors of VIDIOC_DQBUF
\* other than EAGAIN (11) that the driver is taken to report: EIO (5) and
\* ENODEV (19)
FrameError(errno) ==
    CASE errno = "EIO" -> "Error retrieving frame 5"
      [] errno = "ENODEV" -> "Error retrieving frame 19"

\* the bookkeeping of one VIDIOC_QBUF issued on camera c
Enqueued(c, ok) ==
    [c EXCEPT !.queued = ok,
              !.qsince = IF c.qsince < 3 THEN c.qsince + 1 ELSE 3,
              !.dblq = c.dblq \/ c.queued]

\* the bookkeeping of a poll that returns Ready
Readied(c) ==
    [c EXCEPT !.res = "Ready",
              !.gap = c.qsince,
              !.qsince = 0,
              !.readys = IF c.readys < 2 THEN c.readys + 1 ELSE 2]

\* as Camera_poll, re-enqueueing whatever the dequeue returned short of a fatal error
Camera_poll_requeue_on_wait(c, dq, qOk) ==
    CASE dq = "EAGAIN" ->
           [cam |-> [Enqueued(c, TRUE) EXCEPT !.res = "Pending"],
            calls |-> << Call(c.fd, "VIDIOC_DQBUF", FALSE),
                         Call(c.fd, "VIDIOC_QBUF", TRUE),
                         Call(c.fd, "register_waker", TRUE) >>,
            closed |-> FALSE, msg |-> ""]
      [] dq = "ok" ->
           LET d == [c EXCEPT !.queued = FALSE]
               e == Enqueued(d, qOk)
           IN  [cam |-> IF qOk THEN Readied(e)
                        ELSE [e EXCEPT !.res = "panic", !.st = "panicked"],
                calls |-> << Call(c.fd, "VIDIOC_DQBUF", TRUE),
                             Call(c.fd, "VIDIOC_QBUF", qOk) >>,
                closed |-> FALSE, msg |-> IF qOk THEN "" ELSE "VIDIOC_QBUF"]
      [] OTHER ->
           [cam |-> [c EXCEPT !.res = "panic", !.st = "panicked",
                              !.queued = FALSE],
            calls |-> << Call(c.fd, "VIDIOC_DQBUF", FALSE),
                         Call(c.fd, "close", TRUE) >>,
            closed |-> TRUE, msg |-> FrameError(dq)]

\* as Camera_poll, returning Ready after the dequeue without the VIDIOC_QBUF
Camera_poll_no_requeue(c, dq, qOk) ==
    CASE dq = "EAGAIN" ->
           [cam |-> [c EXCEPT !.res = "Pending"],
            calls |-> << Call(c.fd, "VIDIOC_DQBUF", FALSE),
                         Call(c.fd, "register_waker", TRUE) >>,
            closed |-> FALSE, msg |-> ""]
      [] dq = "ok" ->
           [cam |-> Readied([c EXCEPT !.queued = FALSE]),
            calls |-> << Call(c.fd, "VIDIOC_DQBUF", TRUE) >>,
            closed |-> FALSE, msg |-> ""]
      [] OTHER ->
           [cam |-> [c EXCEPT !.res = "panic", !.st = "panicked",
                              !.queued = FALSE],
            calls |-> << Call(c.fd, "VIDIOC_DQBUF", FALSE),
                         Call(c.fd, "close", TRUE) >>,
            closed |-> TRUE, msg |-> FrameError(dq)]

\* as Camera_poll, panicking on a fatal dequeue error without the close
Camera_poll_fatal_keeps_fd(c, dq, qOk) ==
    CASE dq = "EAGAIN" ->
           [cam |-> [c EXCEPT !.res = "Pending"],
            calls |-> << Call(c.fd, "VIDIOC_DQBUF", FALSE),
                         Call(c.fd, "register_waker", TRUE) >>,
            closed |-> FALSE, msg |-> ""]
      [] dq = "ok" ->
           LET d == [c EXCEPT !.queued = FALSE]
               e == Enqueued(d, qOk)
           IN  [cam |-> IF qOk THEN Readied(e)
                        ELSE [e EXCEPT !.res = "panic", !.st = "panicked"],
                calls |-> << Call(c.fd, "VIDIOC_DQBUF", TRUE),
                             Call(c.fd, "VIDIOC_QBUF", qOk) >>,
                closed |-> FALSE, msg |-> IF qOk THEN "" ELSE "VIDIOC_QBUF"]
      [] OTHER ->
           [cam |-> [c EXCEPT !.res = "panic", !.st = "panicked",
                              !.queued = FALSE],
            calls |-> << Call(c.fd, "VIDIOC_DQBUF", FALSE) >>,
            closed |-> FALSE, msg |-> FrameError(dq)]

Camera_poll(c, dq, qOk) ==
    CASE dq = "EAGAIN" ->
           [cam |-> [c EXCEPT !.res = "Pending"],
            calls |-> << Call(c.fd, "VIDIOC_DQBUF", FALSE),
                         Call(c.fd, "register_waker", TRUE) >>,
            closed |-> FALSE, msg |-> ""]
      [] dq = "ok" ->
           LET d == [c EXCEPT !.queued = FALSE]
               e == Enqueued(d, qOk)
           IN  [cam |-> IF qOk THEN Readied(e)
                        ELSE [e EXCEPT !.res = "panic", !.st = "panicked"],
                calls |-> << Call(c.fd, "VIDIOC_DQBUF", TRUE),
                             Call(c.fd, "VIDIOC_QBUF", qOk) >>,
                closed |-> FALSE, msg |-> IF qOk THEN "" ELSE "VIDIOC_QBUF"]
      [] OTHER ->
           [cam |-> [c EXCEPT !.res = "panic", !.st = "panicked",
                              !.queued = FALSE],
            calls |-> << Call(c.fd, "VIDIOC_DQBUF", FALSE),
                         Call(c.fd, "close", TRUE) >>,
            closed |-> TRUE, msg |-> FrameError(dq)]

(***************************************************************************)
(* <Camera as Drop>::drop.  offOk is the result of VIDIOC_STREAMOFF (it    *)
(* fails on a closed descriptor), unmapOk that of munmap(self.buffer,      *)
(* self.size) and closeOk that of close; each failure panics on the spot.  *)
(***************************************************************************)
Camera_drop(c, offOk, unmapOk, closeOk) ==
    LET off == Call(c.fd, "VIDIOC_STREAMOFF", offOk)
        unmap == Call(NoFd, "munmap", unmapOk)
        gone == [c EXCEPT !.st = "dropped", !.queued = FALSE]
    IN  IF ~offOk
        THEN [cam |-> [c EXCEPT !.st = "dropped"], calls |-> <<off>>,
              closed |-> FALSE, res |-> "panic"]
        ELSE IF ~unmapOk
        THEN [cam |-> gone, calls |-> <<off, unmap>>,
              closed |-> FALSE, res |-> "panic"]
        ELSE [cam |-> gone,
              calls |-> <<off, unmap, Call(c.fd, "close", closeOk)>>,
              closed |-> TRUE,
              res |-> IF closeOk THEN "done" ELSE "panic"]

(***************************************************************************)
(* Initial state: Rig::new() has created the watch on /dev/, which may     *)
(* already hold any entries; nothing is connected and no event is queued.  *)
(***************************************************************************)
NoScan == [snap |-> {}, seen |-> {}, failed |-> {}]

\* the scan bookkeeping is kept only in runs that ask for it (hist.on): the
\* previous and the running scan, the number of scans, whether a removal
\* record was read since the previous scan, Rig.connected as the running scan
\* found it (conn0), and whether the running call went to the scan on its
\* first read, without a record before it (fresh)
NoHist == [on |-> FALSE, prev |-> NoScan, cur |-> NoScan, scans |-> 0,
           removed |-> FALSE, conn0 |-> {}, fresh |-> FALSE]

\* the record of one step: the operation, the entry or node it handled, the
\* descriptor passed to Camera::new (for a read: the number of records it
\* returned; for a camera's poll: the outcome of its VIDIOC_DQBUF), the
\* camera polled or dropped, the system calls issued in order,
\* the result of the poll or drop, the result of Camera::new, and a detail
\* (panic message, kind of open error, kind of record)
Step(op, file, arg, calls, res, new, msg) ==
    [op |-> op, file |-> file, arg |-> arg, cam |-> 0, calls |-> calls,
     res |-> res, new |-> new, msg |-> msg]

NoStep == Step("none", <<>>, 0, <<>>, "", "", "")

NoCtl == [dir |-> 0, size |-> 0, num |-> 0, code |-> <<>>, done |-> FALSE]

Init ==
    /\ dev \in {S \cup {null} : S \in SUBSET HotplugNames}
    /\ inotify = <<>>
    /\ connected = {}
    /\ rigPc = "idle"
    /\ scanLeft = {}
    /\ fds = <<>>
    /\ cams = <<>>
    /\ last = NoStep
    /\ hist = NoHist
    /\ ctl = NoCtl

(***************************************************************************)
(* The environment: device nodes appear in and disappear from /dev/; the   *)
(* watch queues one record for each.  A poll runs to its return without    *)
(* other steps in between (RigIdle); after the monitor has panicked nobody *)
(* reads the directory or the queue any more, and they are left as is.     *)
(***************************************************************************)
RigIdle == rigPc \in {"idle", "dead"}

Plug(name) ==
    /\ rigPc = "idle"
    /\ name \notin dev
    /\ Len(inotify) < MaxEvents
    /\ dev' = dev \cup {name}
    /\ inotify' = Append(inotify, [mask |-> IN_CREATE, name |-> name])
    /\ last' = NoStep
    /\ UNCHANGED <<connected, rigPc, scanLeft, fds, cams, hist, ctl>>

Unplug(name) ==
    /\ rigPc = "idle"
    /\ name \in dev
    /\ Len(inotify) < MaxEvents
    /\ dev' = dev \ {name}
    /\ inotify' = Append(inotify, [mask |-> IN_DELETE, name |-> name])
    /\ last' = NoStep
    /\ UNCHANGED <<connected, rigPc, scanLeft, fds, cams, hist, ctl>>

(***************************************************************************)
(* <Rig as Future>::poll, one system call (or one directory entry) at a    *)
(* time.  A call starts at "idle" with the read of the inotify descriptor; *)
(* the tail call self.poll(cx) after a record is the position "read".      *)
(***************************************************************************)
\* the name filter of the removal branch
RemovalFilter(file) == ends_with(file, EventJoystick)

\* as AfterRecord, taking out every entry whose name the record's name starts with
AfterRecord_by_prefix(conn, ev) ==
    LET file == to_string_lossy(ev.name)
    IN  IF RemoveFlagSet(ev.mask) /\ RemovalFilter(file)
        THEN {n \in conn : ~starts_with(file, n)}
        ELSE conn

\* Rig.connected after the record ev was looked at
AfterRecord(conn, ev) ==
    LET file == to_string_lossy(ev.name)
    IN  IF RemoveFlagSet(ev.mask) /\ RemovalFilter(file)
        THEN conn \ {file}
        ELSE conn

\* read() returned records: the first one is looked at, then poll recurses
RigReadRecord ==
    /\ rigPc \in {"idle", "read"}
    /\ FitCount(inotify, SizeOfInotifyEv) > 0
    /\ LET n == FitCount(inotify, SizeOfInotifyEv)
           ev == Head(inotify)
       IN  /\ inotify' = SubSeq(inotify, n + 1, Len(inotify))
           /\ connected' = AfterRecord(connected, ev)
           /\ hist' = IF hist.on
                      THEN [hist EXCEPT !.removed = @ \/ RemoveFlagSet(ev.mask)]
                      ELSE hist
           /\ last' = Step("Rig::poll/record", ev.name, n,
                           <<Call(RigFd, "read", TRUE)>>, "", "",
                           IF RemoveFlagSet(ev.mask) THEN "remove" ELSE "add")
    /\ rigPc' = "read"
    /\ UNCHANGED <<dev, scanLeft, fds, cams, ctl>>

\* read() returned nothing (<= 0): the directory scan starts
RigReadNone ==
    /\ rigPc \in {"idle", "read"}
    /\ FitCount(inotify, SizeOfInotifyEv) = 0
    /\ rigPc' = "scan"
    /\ scanLeft' = dev
    /\ hist' = IF hist.on
               THEN [hist EXCEPT !.cur = [snap |-> dev, seen |-> {}, failed |-> {}],
                                 !.conn0 = connected,
                                 !.fresh = (rigPc = "idle")]
               ELSE hist
    /\ last' = Step("Rig::poll/read_dir", <<>>, 0,
                    <<Call(RigFd, "read", FALSE)>>, "", "", "")
    /\ UNCHANGED <<dev, inotify, connected, fds, cams, ctl>>

\* file.starts_with("video")
IsCamera(file) == starts_with(file, VideoPrefix)

\* as AlreadyConnected, without the look-up
AlreadyConnected_never(conn, file) == FALSE

\* self.connected.contains(&file)
AlreadyConnected(conn, file) == file \in conn

\* the scan bookkeeping after entry `file` was handled
Seen(file, openFailed) ==
    [hist.cur EXCEPT !.seen = @ \cup {file},
                     !.failed = IF openFailed THEN @ \cup {file} ELSE @]

\* the scan goes on with the next entry
ScanOn(file, openFailed) ==
    /\ rigPc' = "scan"
    /\ scanLeft' = scanLeft \ {file}
    /\ hist' = IF hist.on THEN [hist EXCEPT !.cur = Seen(file, openFailed)]
               ELSE hist

\* the scan ends with this entry (Ready or panic)
ScanOver(file, pc) ==
    /\ rigPc' = pc
    /\ scanLeft' = {}
    /\ hist' = IF hist.on
               THEN [on |-> TRUE, prev |-> Seen(file, FALSE), cur |-> NoScan,
                     scans |-> IF hist.scans < 2 THEN hist.scans + 1 ELSE 2,
                     removed |-> FALSE, conn0 |-> {}, fresh |-> FALSE]
               ELSE hist

\* an entry that is no camera, or one already connected: continue
RigScanSkip(file) ==
    /\ rigPc = "scan"
    /\ file \in scanLeft
    /\ ~IsCamera(file) \/ AlreadyConnected(connected, file)
    /\ ScanOn(file, FALSE)
    /\ last' = Step("Rig::poll/skip", file, 0, <<>>, "", "", "")
    /\ UNCHANGED <<dev, inotify, connected, fds, cams, ctl>>

\* as RigScanOpenFails, with the name inserted before the open is tried
RigScanOpenFails_insert_first(file, kind) ==
    /\ rigPc = "scan"
    /\ file \in scanLeft
    /\ IsCamera(file) /\ ~AlreadyConnected(connected, file)
    /\ ScanOn(file, TRUE)
    /\ connected' = connected \cup {file}
    /\ last' = Step("Rig::poll/open", file, 0, <<>>, "", "", kind)
    /\ UNCHANGED <<dev, inotify, fds, cams, ctl>>

\* the open of /dev/<file> fails: continue
RigScanOpenFails(file, kind) ==
    /\ rigPc = "scan"
    /\ file \in scanLeft
    /\ IsCamera(file) /\ ~AlreadyConnected(connected, file)
    /\ ScanOn(file, TRUE)
    /\ last' = Step("Rig::poll/open", file, 0, <<>>, "", "", kind)
    /\ UNCHANGED <<dev, inotify, connected, fds, cams, ctl>>

\* the open succeeds: insert the name and run Camera::new on the descriptor
RigScanOpen(file, openOk, failAt, length) ==
    /\ rigPc = "scan"
    /\ file \in scanLeft
    /\ IsCamera(file) /\ ~AlreadyConnected(connected, file)
    /\ file \in dev /\ Len(fds) < MaxFds
    /\ openOk => (HardcodedNode \in dev /\ Len(fds) + 1 < MaxFds)
    /\ ~openOk => failAt = 0
    /\ LET argFd == Len(fds) + 1
           ownFd == Len(fds) + 2
           r == Camera_new(argFd, file, ownFd, openOk, failAt, length)
           opened == <<[path |-> file, open |-> TRUE, closes |-> 0]>>
                     \o (IF openOk
                         THEN <<[path |-> HardcodedNode, open |-> TRUE,
                                 closes |-> 0]>>
                         ELSE <<>>)
       IN  /\ connected' = connected \cup {file}
           /\ fds' = fds \o opened
           /\ cams' = cams \o r.cam
           /\ last' = Step("Rig::poll/new", file, argFd, r.calls,
                           CASE r.result = "Some" -> "Ready"
                             [] r.result = "panic" -> "panic"
                             [] OTHER -> "",
                           r.result, r.msg)
           /\ CASE r.result = "Some" -> ScanOver(file, "idle")
                [] r.result = "panic" -> ScanOver(file, "dead")
                [] OTHER -> ScanOn(file, FALSE)
    /\ UNCHANGED <<dev, inotify, ctl>>

\* the directory is exhausted: register the waker and return Pending
RigScanEnd ==
    /\ rigPc = "scan"
    /\ scanLeft = {}
    /\ rigPc' = "idle"
    /\ hist' = IF hist.on
               THEN [on |-> TRUE, prev |-> hist.cur, cur |-> NoScan,
                     scans |-> IF hist.scans < 2 THEN hist.scans + 1 ELSE 2,
                     removed |-> FALSE, conn0 |-> {}, fresh |-> FALSE]
               ELSE hist
    /\ last' = Step("Rig::poll/pending", <<>>, 0,
                    <<Call(RigFd, "register_waker", TRUE)>>, "Pending", "", "")
    /\ UNCHANGED <<dev, inotify, connected, scanLeft, fds, cams, ctl>>

(***************************************************************************)
(* The consumer polls and drops the cameras it was handed.                 *)
(***************************************************************************)
\* descriptor fd after close(fd)
Closed(table, fd) ==
    [table EXCEPT ![fd].open = FALSE, ![fd].closes = @ + 1]

\* the outcomes of VIDIOC_DQBUF: success, or -1 with this errno
DequeueResults == {"ok", "EAGAIN", "EIO", "ENODEV"}

CameraPoll(i, dq, qOk) ==
    /\ RigIdle
    /\ i \in 1..Len(cams)
    /\ cams[i].st = "streaming"
    /\ dq = "ok" => cams[i].queued
    /\ dq # "ok" => qOk
    /\ LET r == Camera_poll(cams[i], dq, qOk)
       IN  /\ cams' = [cams EXCEPT ![i] = r.cam]
           /\ fds' = IF r.closed THEN Closed(fds, cams[i].fd) ELSE fds
           /\ last' = [Step("Camera::poll", cams[i].node, dq, r.calls,
                            r.cam.res, "", r.msg) EXCEPT !.cam = i]
    /\ UNCHANGED <<dev, inotify, connected, rigPc, scanLeft, hist, ctl>>

CameraDrop(i, offOk, unmapOk, closeOk) ==
    /\ RigIdle
    /\ i \in 1..Len(cams)
    /\ cams[i].st # "dropped"
    /\ offOk => fds[cams[i].fd].open
    /\ ~offOk => unmapOk
    /\ ~unmapOk => closeOk
    /\ LET r == Camera_drop(cams[i], offOk, unmapOk, closeOk)
       IN  /\ cams' = [cams EXCEPT ![i] = r.cam]
           /\ fds' = IF r.closed THEN Closed(fds, cams[i].fd) ELSE fds
           /\ last' = [Step("Camera::drop", cams[i].node, 0, r.calls,
                            r.res, "", "") EXCEPT !.cam = i]
    /\ UNCHANGED <<dev, inotify, connected, rigPc, scanLeft, hist, ctl>>

\* an application opens a node itself and calls the public Camera::new
CameraNew(file, openOk, failAt, length) ==
    /\ RigIdle
    /\ file \in dev /\ Len(fds) < MaxFds
    /\ openOk => (HardcodedNode \in dev /\ Len(fds) + 1 < MaxFds)
    /\ ~openOk => failAt = 0
    /\ LET argFd == Len(fds) + 1
           ownFd == Len(fds) + 2
           r == Camera_new(argFd, file, ownFd, openOk, failAt, length)
           opened == <<[path |-> file, open |-> TRUE, closes |-> 0]>>
                     \o (IF openOk
                         THEN <<[path |-> HardcodedNode, open |-> TRUE,
                                 closes |-> 0]>>
                         ELSE <<>>)
       IN  /\ fds' = fds \o opened
           /\ cams' = cams \o r.cam
           /\ last' = Step("Camera::new", file, argFd, r.calls,
                           IF r.result = "panic" THEN "panic" ELSE "",
                           r.result, r.msg)
    /\ UNCHANGED <<dev, inotify, connected, rigPc, scanLeft, hist, ctl>>

(***************************************************************************)
(* Spec: the hotplug monitor with the cameras it constructs and their      *)
(* teardown.                                                               *)
(***************************************************************************)
Next ==
    \/ \E name \in HotplugNames : Plug(name)
    \/ \E name \in HotplugNames : Unplug(name)
    \/ RigReadRecord
    \/ RigReadNone
    \/ \E file \in DevNames : RigScanSkip(file)
    \/ \E file \in DevNames, kind \in {"PermissionDenied", "Other"} :
           RigScanOpenFails(file, kind)
    \/ \E file \in DevNames, openOk \in BOOLEAN, failAt \in 0..Len(InitOrder),
          length \in BufLengths :
           RigScanOpen(file, openOk, failAt, length)
    \/ RigScanEnd
    \/ \E i \in 1..Len(cams), offOk \in BOOLEAN, unmapOk \in BOOLEAN,
          closeOk \in BOOLEAN :
           CameraDrop(i, offOk, unmapOk, closeOk)

Spec == Init /\ [][Next]_vars

(***************************************************************************)
(* ScanSpec: the hotplug monitor alone, with the bookkeeping of its        *)
(* directory scans switched on.                                            *)
(***************************************************************************)
ScanInit ==
    /\ dev \in {S \cup {null} : S \in SUBSET HotplugNames}
    /\ inotify = <<>>
    /\ connected = {}
    /\ rigPc = "idle"
    /\ scanLeft = {}
    /\ fds = <<>>
    /\ cams = <<>>
    /\ last = NoStep
    /\ hist = [NoHist EXCEPT !.on = TRUE]
    /\ ctl = NoCtl

ScanNext ==
    \/ \E name \in HotplugNames : Plug(name)
    \/ \E name \in HotplugNames : Unplug(name)
    \/ RigReadRecord
    \/ RigReadNone
    \/ \E file \in DevNames : RigScanSkip(file)
    \/ \E file \in DevNames, kind \in {"PermissionDenied", "Other"} :
           RigScanOpenFails(file, kind)
    \/ \E file \in DevNames, openOk \in BOOLEAN, failAt \in 0..Len(InitOrder),
          length \in BufLengths :
           RigScanOpen(file, openOk, failAt, length)
    \/ RigScanEnd

ScanSpec == ScanInit /\ [][ScanNext]_vars

(***************************************************************************)
(* CameraSpec: cameras constructed through the public Camera::new, polled  *)
(* and dropped by their owner.                                             *)
(***************************************************************************)
CameraNext ==
    \/ \E file \in DevNames, openOk \in BOOLEAN, failAt \in 0..Len(InitOrder),
          length \in BufLengths :
           CameraNew(file, openOk, failAt, length)
    \/ \E i \in 1..Len(cams), dq \in DequeueResults, qOk \in BOOLEAN :
           CameraPoll(i, dq, qOk)
    \/ \E i \in 1..Len(cams), offOk \in BOOLEAN, unmapOk \in BOOLEAN,
          closeOk \in BOOLEAN :
           CameraDrop(i, offOk, unmapOk, closeOk)

CameraSpec == Init /\ [][CameraNext]_vars

(***************************************************************************)
(* CodecSpec: the request-code composers applied to every payload size     *)
(* with the command numbers 0 and 255, and to every command number with    *)
(* sampled payload sizes: the powers of two of the size field, their       *)
(* predecessors, and the sizes the code itself uses.                       *)
(***************************************************************************)
SizeBits == 13
NumBits == 8

Sizes == 0..(Pow2(SizeBits) - 1)

Nums == 0..(Pow2(NumBits) - 1)

SampleSizes ==
    {Pow2(k) : k \in 0..(SizeBits - 1)} \cup {Pow2(k) - 1 : k \in 0..SizeBits}
    \cup {r[2] : r \in UsedRequests}

\* the (size, number) pairs composed
Payloads == (Sizes \X {0, Pow2(NumBits) - 1}) \cup (SampleSizes \X Nums)

Dirs == {128, 64, 192}

\* a request to compose: the direction byte, the payload size, the number
Request(dir, size, num) ==
    [dir |-> dir, size |-> size, num |-> num, code |-> <<>>, done |-> FALSE]

CodecInit ==
    /\ dev = {null}
    /\ inotify = <<>>
    /\ connected = {}
    /\ rigPc = "idle"
    /\ scanLeft = {}
    /\ fds = <<>>
    /\ cams = <<>>
    /\ last = NoStep
    /\ hist = NoHist
    /\ ctl \in {Request(dir, p[1], p[2]) : dir \in Dirs, p \in Payloads}

ComposeRequest ==
    /\ ~ctl.done
    /\ ctl' = [ctl EXCEPT !.code = Compose(ctl.dir, ctl.size, ctl.num),
                          !.done = TRUE]
    /\ UNCHANGED <<dev, inotify, connected, rigPc, scanLeft, fds, cams, last,
                   hist>>

CodecNext == ComposeRequest

CodecSpec == CodecInit /\ [][CodecNext]_vars

(***************************************************************************)
(* RecordSpec: one Rig::poll reads one notification record, for every      *)
(* Watched Set over the names a scan can have inserted and every record    *)
(* the watch on /dev/ can deliver for a name, valid UTF-8 or not.          *)
(***************************************************************************)
\* names of video entries a scan can have opened (file_name().into_string()
\* succeeds on them)
EntryNames == {video0, video1, video0_event_joystick, video_fffd_event_joystick}

\* names a record can carry
RecordNames == EntryNames \cup {video_xff_event_joystick}

RecordInit ==
    /\ dev = {null}
    /\ connected \in SUBSET EntryNames
    /\ inotify \in {<<[mask |-> m, name |-> n]>> :
                        m \in {IN_CREATE, IN_DELETE}, n \in RecordNames}
    /\ rigPc = "idle"
    /\ scanLeft = {}
    /\ fds = <<>>
    /\ cams = <<>>
    /\ last = NoStep
    /\ hist = NoHist
    /\ ctl = NoCtl

RecordNext == RigReadRecord

RecordSpec == RecordInit /\ [][RecordNext]_vars

(***************************************************************************)
(*                              The claims                                 *)
(***************************************************************************)
Cams == {cams[i] : i \in 1..Len(cams)}

\* C1 (CameraSpec) Pipeline-always-full: between two consecutive Ready
\* results of a camera's poll exactly one VIDIOC_QBUF is issued; no
\* VIDIOC_QBUF is issued while the buffer is still enqueued (the enqueue of
\* Camera::new included); and when a poll has just returned Ready the buffer
\* is enqueued with the driver.
C1_PipelineAlwaysFull ==
    /\ \A c \in Cams : (c.readys = 2 => c.gap = 1) /\ ~c.dblq
    /\ (last.op = "Camera::poll" /\ last.res = "Ready") => cams[last.cam].queued

\* a camera whose poll has just returned Ready for the second time
C1_Witness ==
    /\ last.op = "Camera::poll" /\ last.res = "Ready"
    /\ cams[last.cam].readys = 2

\* C2 as stated (CameraSpec): after poll returned Ready, and until the next
\* poll of that camera, the completed buffer is not enqueued with the driver.
C2_AsStated ==
    \A c \in Cams : (c.st = "streaming" /\ c.res = "Ready") => ~c.queued

\* C2 as amended (CameraSpec): the poll that returns Ready has itself issued
\* VIDIOC_DQBUF and then VIDIOC_QBUF, both successful, and from its return
\* until the next poll (or the drop) of that camera the buffer is enqueued
\* with the driver.
C2_RecycledBySameCall ==
    /\ \A c \in Cams : (c.st = "streaming" /\ c.res = "Ready") => c.queued
    /\ (last.op = "Camera::poll" /\ last.res = "Ready") =>
           last.calls = << Call(cams[last.cam].fd, "VIDIOC_DQBUF", TRUE),
                           Call(cams[last.cam].fd, "VIDIOC_QBUF", TRUE) >>

\* a camera that returned Ready and has not been polled since, while another
\* camera was polled
C2_Witness ==
    \E i \in 1..Len(cams) :
        /\ cams[i].st = "streaming" /\ cams[i].res = "Ready"
        /\ last.op = "Camera::poll" /\ last.cam # i

\* C3 (Spec): every control call of a camera the Rig constructs is issued on
\* the descriptor the Rig opened and passed to Camera::new, the camera keeps
\* that descriptor, and the descriptor belongs to the node that was found.
C3_OnPassedFd ==
    /\ last.op = "Rig::poll/new" =>
           \A k \in 1..Len(last.calls) : last.calls[k].fd = last.arg
    /\ \A c \in Cams : c.fd = c.arg /\ fds[c.fd].path = c.node

\* C4 (Spec): between Rig::poll calls a name is in Rig.connected exactly when
\* a live camera obtained for that name exists.
C4_WatchedIffOpen ==
    rigPc = "idle" =>
        \A name \in DevNames :
            name \in connected <=>
                \E c \in Cams : c.node = name /\ c.st = "streaming"

\* the entry handled by the scan step just taken
ScanSteps == {"Rig::poll/skip", "Rig::poll/open", "Rig::poll/new"}

\* the running scan repeats the previous one: same directory contents and no
\* removal record processed in between
Rescan ==
    /\ rigPc = "scan"
    /\ hist.scans >= 1
    /\ hist.prev.snap = hist.cur.snap
    /\ ~hist.removed

\* C5 as stated (ScanSpec): in a scan that repeats the previous one, an entry
\* the previous scan reached is handled without a new camera and without a
\* change of Rig.connected.
C5_AsStated ==
    [][ (Rescan /\ last'.op \in ScanSteps /\ last'.file \in hist.prev.seen)
            => (connected' = connected /\ cams' = cams /\ last'.new # "Some")
      ]_vars

\* C5 as amended (ScanSpec): the same, for the entries the previous scan
\* reached and did not fail to open.
C5_IdempotentDiscovery ==
    [][ (Rescan /\ last'.op \in ScanSteps
           /\ last'.file \in hist.prev.seen \ hist.prev.failed)
            => (connected' = connected /\ cams' = cams /\ last'.new # "Some")
      ]_vars

\* a repeated scan has just passed over a camera node the previous scan had
\* reached without an open failure
C5_Witness ==
    /\ Rescan
    /\ last.op = "Rig::poll/skip"
    /\ IsCamera(last.file)
    /\ last.file \in hist.prev.seen \ hist.prev.failed

\* C6 (Spec): after Rig::poll looked at a record with the removal bit whose
\* name is a video node name, that name is not in Rig.connected.
C6_RemovalForgets ==
    (last.op = "Rig::poll/record" /\ last.msg = "remove" /\ IsCamera(last.file))
        => last.file \notin connected

\* C7 (CameraSpec): a dropped camera's descriptor is closed, and was closed
\* exactly once.
C7_DropClosesOnce ==
    \A c \in Cams :
        c.st = "dropped" => (~fds[c.fd].open /\ fds[c.fd].closes = 1)

\* C8 (Spec): when VIDIOC_QUERYCAP fails, Camera::new returns to its caller
\* (it reports the failure instead of panicking) and has issued no further
\* control call.
C8_QuerycapRejection ==
    (last.op = "Rig::poll/new" /\ Len(last.calls) >= 1 /\ ~last.calls[1].ok)
        => (last.new # "panic" /\ Len(last.calls) = 1)

\* the decomposition of a request code
DecodeNum(code) == BitsValue(code, 0, 7)
DecodeTag(code) == BitsValue(code, 8, 15)
DecodeSize(code) == BitsValue(code, 16, 28)
\* the direction bits are the bits 29..31 of the high byte, whose low bits
\* 24..28 belong to the size field
DecodeDir(code) == 32 * BitsValue(code, 29, 31)

\* C10 (CodecSpec) Code round-trip: the code composed by iow_v, ior_v or
\* iowr_v decomposes into the direction, the size, the tag 'V' and the
\* number it was composed of, and differs from the code of every other
\* request the program uses.
C10_CodeRoundTrip ==
    ctl.done =>
        /\ DecodeDir(ctl.code) = ctl.dir
        /\ DecodeSize(ctl.code) = ctl.size
        /\ DecodeTag(ctl.code) = TagV
        /\ DecodeNum(ctl.code) = ctl.num
        /\ \A r \in UsedRequests :
               r # <<ctl.dir, ctl.size, ctl.num>>
                   => Compose(r[1], r[2], r[3]) # ctl.code

\* a composed read request whose size reaches into the high byte
C10_Witness ==
    ctl.done /\ ctl.dir = 64 /\ ctl.size = 8191 /\ ctl.num = 255

\* the live cameras that hold descriptor f
Owners(f) == {i \in 1..Len(cams) : cams[i].fd = f /\ cams[i].st = "streaming"}

\* C11 (Spec) Device Handle ownership: between Rig::poll calls every
\* descriptor opened by the scan or inside Camera::new is closed or held by
\* exactly one live camera, and no descriptor is held by two cameras.
C11_HandleOwnership ==
    rigPc = "idle" =>
        \A f \in 1..Len(fds) :
            /\ Cardinality(Owners(f)) <= 1
            /\ fds[f].open => Cardinality(Owners(f)) = 1

\* the requests of a successful initialization that maps the buffer
RequestsWithMapping ==
    << "VIDIOC_QUERYCAP", "VIDIOC_S_FMT", "VIDIOC_REQBUFS", "VIDIOC_QUERYBUF",
       "mmap", "VIDIOC_QBUF", "VIDIOC_STREAMON" >>

\* the requests of the calls of a step, in order
Requests(calls) == [k \in 1..Len(calls) |-> calls[k].req]

\* C12 (CameraSpec) Initialization order with mapping: a successful
\* Camera::new has issued capability query, format set, buffer request,
\* buffer query, the mapping of the buffer, enqueue and stream-on in this
\* order, and the camera it returns holds a non-null region whose length is
\* the queried buffer length.
C12_InitMapsBuffer ==
    (last.op = "Camera::new" /\ last.new = "Some") =>
        /\ Requests(last.calls) = RequestsWithMapping
        /\ cams[Len(cams)].buffer # "null"
        /\ cams[Len(cams)].size \in BufLengths

\* the calls of a teardown, in order
TeardownOrder == << "VIDIOC_STREAMOFF", "munmap", "close" >>

\* the calls one poll of a camera may issue: a dequeue that would block, a
\* dequeue followed by the enqueue, a dequeue that failed for good
PollShapes ==
    { << "VIDIOC_DQBUF", "register_waker" >>,
      << "VIDIOC_DQBUF", "VIDIOC_QBUF" >>,
      << "VIDIOC_DQBUF", "close" >> }

\* a camera's device is Closed once it was dropped or its descriptor closed
CameraClosed(c, table) == c.st = "dropped" \/ ~table[c.fd].open

\* C13 (CameraSpec) Linear lifecycle: a camera comes to exist by the six
\* initialization calls in order; every later call on it is issued while its
\* device is not Closed, a poll issuing one dequeue followed by one enqueue
\* exactly when the dequeue succeeded, a drop issuing VIDIOC_STREAMOFF, munmap
\* and close in this order (up to the one that fails); and a Closed device
\* stays Closed.
C13_LinearLifecycle ==
    [][ /\ (last'.op = "Camera::new" /\ last'.new = "Some") =>
               Requests(last'.calls) = InitOrder
        /\ (last'.op \in {"Camera::poll", "Camera::drop"}) =>
               LET c == cams[last'.cam]
                   reqs == Requests(last'.calls)
               IN  /\ ~CameraClosed(c, fds)
                   /\ (last'.op = "Camera::poll") =>
                          /\ reqs \in PollShapes
                          /\ (reqs[2] = "VIDIOC_QBUF") <=> last'.calls[1].ok
                   /\ (last'.op = "Camera::drop") =>
                          reqs = SubSeq(TeardownOrder, 1, Len(reqs))
        /\ \A i \in 1..Len(cams) :
               CameraClosed(cams[i], fds) => CameraClosed(cams'[i], fds')
      ]_vars

\* the calls of a step that register a wake token
Registrations(calls) ==
    {k \in 1..Len(calls) : calls[k].req = "register_waker"}

\* a poll of a camera whose dequeue would block: one failed VIDIOC_DQBUF, one
\* wake token on the camera's descriptor, Pending, and nothing else changed;
\* a poll that returns Ready registers nothing
C14_CameraWait ==
    /\ (last'.op = "Camera::poll" /\ last'.arg = "EAGAIN") =>
           LET i == last'.cam
           IN  /\ last'.res = "Pending"
               /\ last'.calls = << Call(cams[i].fd, "VIDIOC_DQBUF", FALSE),
                                   Call(cams[i].fd, "register_waker", TRUE) >>
               /\ cams' = [cams EXCEPT ![i].res = "Pending"]
               /\ cams'[i].queued
               /\ fds' = fds /\ fds[cams[i].fd].open
               /\ connected' = connected
    /\ (last'.op = "Camera::poll" /\ last'.res = "Ready") =>
           Registrations(last'.calls) = {}

\* a Rig::poll that read no record and found no new device: one wake token on
\* the inotify descriptor, registered by the step that returns Pending and by
\* no step before it, and Rig.connected as the call found it; the step that
\* returns Ready registers nothing
C14_RigWait ==
    /\ (last'.op = "Rig::poll/pending" /\ hist.fresh) =>
           /\ last'.res = "Pending"
           /\ last'.calls = << Call(RigFd, "register_waker", TRUE) >>
           /\ connected' = hist.conn0
           /\ cams' = cams /\ fds' = fds
    /\ (last'.op \in ScanSteps \cup {"Rig::poll/read_dir", "Rig::poll/record"}) =>
           Registrations(last'.calls) = {}

\* C14 (ScanSpec) Would-block is a pure wait state: a Camera::poll whose
\* dequeue fails with EAGAIN, and a Rig::poll that finds neither a record nor
\* a new device, register exactly one wake token on their own descriptor,
\* return Pending and leave everything else as it was (descriptor open,
\* buffer enqueued, no VIDIOC_QBUF, Rig.connected unchanged); a poll that
\* returns Ready registers no wake token.
C14_WouldBlockPureWait == [][C14_CameraWait /\ C14_RigWait]_vars

\* C15 (CameraSpec) Fatal dequeue failure: when the VIDIOC_DQBUF of a poll
\* fails with an error other than EAGAIN, the poll closes the camera's
\* descriptor, panics with the error code in its message, issues no
\* VIDIOC_QBUF and returns neither Ready nor Pending.
C15_FatalDequeue ==
    (last.op = "Camera::poll" /\ last.arg \notin {"ok", "EAGAIN"}) =>
        LET c == cams[last.cam]
        IN  /\ ~fds[c.fd].open /\ fds[c.fd].closes = 1
            /\ last.res = "panic" /\ c.res \notin {"Ready", "Pending"}
            /\ last.msg = FrameError(last.arg)
            /\ last.calls = << Call(c.fd, "VIDIOC_DQBUF", FALSE),
                               Call(c.fd, "close", TRUE) >>

\* a camera that had delivered frames and whose dequeue now failed with ENODEV
C15_Witness ==
    /\ last.op = "Camera::poll" /\ last.arg = "ENODEV"
    /\ cams[last.cam].readys >= 1
    /\ last.msg = "Error retrieving frame 19"

\* C16 (ScanSpec) Open failure is skipped: when the open of a video entry
\* fails during a scan, its name is not inserted into Rig.connected, no
\* camera is constructed and no descriptor opened for it, and the scan goes
\* on with the remaining entries (the monitor does not stop); and when the
\* next scan reaches an entry the previous scan failed to open, it does not
\* pass over it as already connected but tries the open again.
C16_OpenFailureSkipped ==
    [][ /\ (last'.op = "Rig::poll/open") =>
               /\ connected' = connected /\ last'.file \notin connected'
               /\ cams' = cams /\ fds' = fds
               /\ rigPc' = "scan" /\ scanLeft' = scanLeft \ {last'.file}
        /\ (rigPc = "scan" /\ hist.scans >= 1 /\ last'.op \in ScanSteps
              /\ last'.file \in hist.prev.failed) =>
               last'.op \in {"Rig::poll/open", "Rig::poll/new"}
      ]_vars

\* a scan has just failed, for lack of permission, to open an entry the
\* previous scan had failed to open too, and has more entries to visit
C16_Witness ==
    /\ rigPc = "scan" /\ hist.scans >= 1
    /\ last.op = "Rig::poll/open" /\ last.msg = "PermissionDenied"
    /\ last.file \in hist.prev.failed
    /\ last.file \notin connected
    /\ scanLeft # {}

\* the steps of Rig::poll
RigSteps ==
    ScanSteps \cup {"Rig::poll/record", "Rig::poll/read_dir", "Rig::poll/pending"}

\* the calls of a step that failed
Failed(calls) == {k \in 1..Len(calls) : ~calls[k].ok}

C19_NoUseAfterClose ==
    [][ (last'.op \in {"Camera::poll", "Camera::drop"}) =>
            \A k \in 1..Len(last'.calls) :
                (last'.calls[k].fd # NoFd) =>
                    /\ fds[last'.calls[k].fd].open
                    /\ \A j \in 1..(k - 1) : last'.calls[j].req # "close"
      ]_vars

\* C20 (Spec) Drain before scan: each step of Rig::poll that reads a record
\* takes exactly that one record out of the notification queue and leaves
\* the records behind it for the next reads; the directory is scanned only
\* after a read on an empty queue; and a Rig::poll returns Ready only with
\* the queue empty.
C20_DrainBeforeScan ==
    [][ /\ (last'.op = "Rig::poll/record") =>
               /\ inotify # <<>>
               /\ inotify' = Tail(inotify)
               /\ last'.file = Head(inotify).name
        /\ (last'.op = "Rig::poll/read_dir") => inotify = <<>>
        /\ (last'.op = "Rig::poll/new" /\ last'.res = "Ready") => inotify' = <<>>
      ]_vars

====
